---- MODULE Spec2Model ----
(***************************************************************************)
(* Batched censored (truncated-normal) linear regression, torch_TLR.py.    *)
(*                                                                         *)
(* Four specifications, one per unit of the source:                        *)
(*   SpecLogDelta  TruncatedNormal.get_logdelta, one tensor element        *)
(*   SpecLogProb   TruncatedNormal.log_prob, one tensor element            *)
(*   SpecForward   TLR.forward on a batch of B elements, n observations    *)
(*   Spec          the estimation loop of torch_TLR                        *)
(*                                                                         *)
(* Floating point is modelled by classes and ordinals.  A float is one of  *)
(* "nan", "ninf", "neg", "zero", "pos", "pinf" (or "fin" when the sign of  *)
(* a finite value is not tracked).  Arguments of the standard normal are   *)
(* integers, with -inf and +inf as the sentinels NegInf and PosInf, so     *)
(* that the comparisons, abs and negation of the source are the integer    *)
(* ones.                                                                   *)
(***************************************************************************)
EXTENDS Integers, Sequences, FiniteSets, Bags, TLC

VARIABLES
    \* ---- TruncatedNormal.get_logdelta (one element) ----
    a, b,          \* the bounds of the element
    res,           \* the element of the tensor res
    writers,       \* the regimes that assigned res for this element, in order
    ld_pc,         \* position in get_logdelta
    \* ---- TruncatedNormal.log_prob (one element) ----
    val, loc, scale,
    lp_res,        \* the element of the returned tensor
    lp_pc,
    \* ---- TLR.forward ----
    batch,         \* [B, n, y, X, beta, sigma] : the solver's tensors
    fwd_out,       \* the tensor returned by forward()
    fwd_pc,
    \* ---- torch_TLR ----
    device, max_iter, tol, verbose,   \* arguments
    yB, yN,        \* y.shape
    iteration,     \* the loop variable (-1: not bound yet)
    beta,          \* the contents of solver.beta's storage
    best_beta,     \* None, a copy, or an array sharing solver.beta's storage
    best_loss, prev_loss,
    logliks,       \* the tensor solver() returned in the iteration just run
    loss,          \* loss of the iteration just run
    pc,            \* "loop", "after" (the loop was left), "returned", "error"
    \* history of the run, for stating the properties
    losses,        \* the losses observed so far, in order
    snap,          \* the value of solver.beta when best_beta was last assigned
    snapIter,      \* the iteration that last assigned best_beta
    steps,         \* optimizer steps taken
    outcome        \* "none", "CONVERGED", "EXHAUSTED"

tnVars  == <<a, b, res, writers, ld_pc>>
lpVars  == <<val, loc, scale, lp_res, lp_pc>>
fwdVars == <<batch, fwd_out, fwd_pc>>
drvVars == <<device, max_iter, tol, verbose, yB, yN, iteration, beta, best_beta,
             best_loss, prev_loss, logliks, loss, pc, losses, snap, snapIter, steps, outcome>>
vars    == <<tnVars, lpVars, fwdVars, drvVars>>

-----------------------------------------------------------------------------
(* Bounds of the model *)
MaxX == 32      \* get_logdelta bounds range over -MaxX..MaxX and the infinities
MaxZ == 2       \* log_prob bounds range over -MaxZ..MaxZ and the infinities
MaxV == 2       \* log_prob values range over 2*(-MaxV..MaxV)

(* -inf and +inf as arguments of the normal distribution (np.inf) *)
PosInf == 1000
NegInf == -PosInf

Abs(x) == IF x < 0 THEN -x ELSE x
Max(x, y) == IF x >= y THEN x ELSE y
Min(x, y) == IF x <= y THEN x ELSE y

-----------------------------------------------------------------------------
(* Float classes *)
IsNan(c) == c = "nan"
LeZero(c) == c \in {"ninf", "neg", "zero"}      \* c <= 0 ; False for nan

\* x - y in IEEE arithmetic, the sign of a finite result not tracked
FSub(x, y) ==
    IF IsNan(x) \/ IsNan(y) THEN "nan"
    ELSE IF x = "pinf" THEN (IF y = "pinf" THEN "nan" ELSE "pinf")
    ELSE IF x = "ninf" THEN (IF y = "ninf" THEN "nan" ELSE "ninf")
    ELSE IF y = "pinf" THEN "ninf"
    ELSE IF y = "ninf" THEN "pinf"
    ELSE "fin"

(* dist.Normal(0,1).cdf in double precision, as an ordinal: 0.5*(1+erf(x/sqrt 2)) *)
(* is exactly 0 for x <= -CdfSat, exactly 1 for x >= CdfSat and strictly           *)
(* increasing in between.  CdfOne is the ordinal of 1.0.                           *)
CdfSat == 9
CdfOne == 2 * CdfSat
Cdf(x) == IF x <= -CdfSat THEN 0 ELSE IF x >= CdfSat THEN CdfOne ELSE x + CdfSat

(* gp.log_normal_cdf as an ordinal: -inf at -inf, finite and strictly increasing   *)
(* for finite x below LogSat, and from LogSat on so close to 0 that exp of the     *)
(* difference of two such values rounds to 1.0 (ordinal 0).                        *)
LogSat == 9
log_normal_cdf(x) == IF x = NegInf THEN NegInf ELSE Min(x, LogSat) - LogSat

(* lp + log1p(-exp(lq - lp)) in IEEE arithmetic, for lp, lq results of log_normal_cdf *)
LogDiff(lp, lq) ==
    IF lp = NegInf THEN "nan"                    \* (-inf)-(-inf), or log1p(-inf)
    ELSE IF lq = NegInf THEN (IF lp = 0 THEN "zero" ELSE "neg")   \* lp + log1p(-0)
    ELSE IF lq > lp THEN "nan"                   \* log1p of a value below -1
    ELSE IF lq = lp THEN "ninf"                  \* log1p(-1)
    ELSE "neg"

-----------------------------------------------------------------------------
(* TruncatedNormal.get_logdelta, elementwise *)
ids1(pa, pb)  == pa <= 30 /\ pb >= -30
ids11(pa, pb) == ids1(pa, pb) /\ pa > 0
ids12(pa, pb) == ids1(pa, pb) /\ pa <= 0

\* lines 21-23: the probability of the element, clamped at 0 (an ordinal)
Delta(pa, pb) ==
    Max(IF ids11(pa, pb) THEN Cdf(-pa) - Cdf(-pb) ELSE Cdf(pb) - Cdf(pa), 0)

\* lines 17-24: res after the direct regime
ResDirect(pa, pb) ==
    IF ~ids1(pa, pb) THEN "nan"
    ELSE IF Delta(pa, pb) = 0 THEN "zero"
    ELSE IF Delta(pa, pb) = CdfOne THEN "zero"      \* log(1.0)
    ELSE "neg"                                      \* log of a value in (0,1)

ids2(r, pa, pb) == LeZero(r) /\ (pb < 0 \/ Abs(pa) >= Abs(pb))
ids3(r, pa, pb) == ~ids2(r, pa, pb)

UpperTail(pa, pb) == LogDiff(log_normal_cdf(-pb), log_normal_cdf(-pa))
LowerTail(pa, pb) == LogDiff(log_normal_cdf(-pa), log_normal_cdf(-pb))

\* the element returned by get_logdelta(a, b)
get_logdelta(pa, pb) ==
    LET r1 == ResDirect(pa, pb)
        r2 == IF ids2(r1, pa, pb) THEN UpperTail(pa, pb) ELSE r1
    IN  IF ids3(r1, pa, pb) THEN LowerTail(pa, pb) ELSE r2

Ext(m) == {NegInf, PosInf} \cup (-m .. m)

IdleTN  == a = 0 /\ b = 0 /\ res = "nan" /\ writers = <<>> /\ ld_pc = "idle"
IdleLP  == val = 0 /\ loc = 0 /\ scale = 1 /\ lp_res = "nan" /\ lp_pc = "idle"
IdleFwd == batch = <<>> /\ fwd_out = <<>> /\ fwd_pc = "idle"
IdleDrv ==
    /\ device = "cpu" /\ max_iter = 0 /\ tol = 0 /\ verbose = 0 /\ yB = 1 /\ yN = 1
    /\ iteration = -1 /\ beta = 0 /\ best_beta = [kind |-> "None"]
    /\ best_loss = <<>> /\ prev_loss = <<>> /\ logliks = <<>> /\ loss = <<>>
    /\ pc = "idle"
    /\ losses = <<>> /\ snap = 0 /\ snapIter = -1 /\ steps = 0 /\ outcome = "none"

InitLogDelta ==
    /\ a \in Ext(MaxX) /\ b \in Ext(MaxX) /\ a <= b
    /\ res = "nan" /\ writers = <<>> /\ ld_pc = "direct"
    /\ IdleLP /\ IdleFwd /\ IdleDrv

\* lines 17-24
DirectRegime ==
    /\ ld_pc = "direct"
    /\ res' = ResDirect(a, b)
    /\ writers' = IF ids1(a, b) THEN <<"direct">> ELSE <<>>
    /\ ld_pc' = "upper"
    /\ UNCHANGED <<a, b, lpVars, fwdVars, drvVars>>

\* lines 26-29
UpperRegime ==
    /\ ld_pc = "upper"
    /\ IF ids2(res, a, b)
         THEN res' = UpperTail(a, b) /\ writers' = Append(writers, "upper")
         ELSE UNCHANGED <<res, writers>>
    \* ids3 = ~ids2 is computed here, from res as it was on line 26
    /\ ld_pc' = IF ids3(res, a, b) THEN "lower" ELSE "skiplower"
    /\ UNCHANGED <<a, b, lpVars, fwdVars, drvVars>>

\* lines 31-34
LowerRegime ==
    /\ ld_pc \in {"lower", "skiplower"}
    /\ IF ld_pc = "lower"
         THEN res' = LowerTail(a, b) /\ writers' = Append(writers, "lower")
         ELSE UNCHANGED <<res, writers>>
    /\ ld_pc' = "done"
    /\ UNCHANGED <<a, b, lpVars, fwdVars, drvVars>>

NextLogDelta == DirectRegime \/ UpperRegime \/ LowerRegime
SpecLogDelta == InitLogDelta /\ [][NextLogDelta]_vars

\* the element was resolved by the direct regime: inside the window, with a
\* clamped probability > 0
Resolved(pa, pb) == ids1(pa, pb) /\ Delta(pa, pb) > 0
TailCond(pa, pb) == pb < 0 \/ Abs(pa) >= Abs(pb)
TailWriters == SelectSeq(writers, LAMBDA w : w \in {"upper", "lower"})

\* C3: for all a <= b the element returned by get_logdelta is neither NaN nor
\* +inf: it is a value <= 0 or -inf.
C3_NeverNanNorPosInf == ld_pc = "done" => res \in {"ninf", "neg", "zero"}

\* C6: the final result of every element is written by exactly one regime: an
\* element the direct regime resolved keeps its value and no tail regime
\* recomputes it; every other element is written by exactly one tail regime.
C6_ExactlyOneRegime ==
    ld_pc = "done" =>
        IF Resolved(a, b) THEN writers = <<"direct">>
        ELSE Len(TailWriters) = 1

\* C7: an element the direct regime did not resolve is computed by the
\* upper-tail formula iff b < 0 or |a| >= |b|, and by the lower-tail formula
\* otherwise.
C7_TailSelection ==
    (ld_pc = "done" /\ ~Resolved(a, b)) =>
        /\ TailWriters # <<>>
        /\ (TailWriters[Len(TailWriters)] = "upper") <=> TailCond(a, b)

-----------------------------------------------------------------------------
(* TruncatedNormal.log_prob, elementwise.  val, loc are finite, scale is a  *)
(* finite positive number, and (val - loc) is a multiple of scale, so that  *)
(* the division is exact.                                                   *)
val_standard(v, l, s) == (v - l) \div s

\* snd.log_prob(z) = -z^2/2 - log(sqrt(2 pi)) of a finite z
LogPdf(z) == "neg"
\* scale.log() of a scale >= 1
LogOf(s) == IF s = 1 THEN "zero" ELSE "pos"

\* line 38
LogProbFormula(v, pa, pb, l, s) ==
    FSub(FSub(LogPdf(val_standard(v, l, s)), get_logdelta(pa, pb)), LogOf(s))

\* variant with the boundaries excluded (<= and >= on line 39)
log_prob_closed(v, pa, pb, l, s) ==
    IF val_standard(v, l, s) <= pa \/ val_standard(v, l, s) >= pb
    THEN "ninf" ELSE LogProbFormula(v, pa, pb, l, s)

log_prob(v, pa, pb, l, s) ==
    IF val_standard(v, l, s) < pa \/ val_standard(v, l, s) > pb
    THEN "ninf" ELSE LogProbFormula(v, pa, pb, l, s)

ScaleVals == {1, 2}
InitLogProb ==
    /\ a \in Ext(MaxZ) /\ b \in Ext(MaxZ) /\ a <= b
    /\ val \in {2 * i : i \in -MaxV .. MaxV}
    /\ loc \in {0, 2}
    /\ scale \in ScaleVals
    /\ lp_res = "nan" /\ lp_pc = "call"
    /\ res = "nan" /\ writers = <<>> /\ ld_pc = "idle"
    /\ IdleFwd /\ IdleDrv

\* lines 36-40
LogProb ==
    /\ lp_pc = "call"
    /\ lp_res' = log_prob(val, a, b, loc, scale)
    /\ lp_pc' = "done"
    /\ UNCHANGED <<tnVars, val, loc, scale, fwdVars, drvVars>>

NextLogProb == LogProb
SpecLogProb == InitLogProb /\ [][NextLogProb]_vars

Outside == val_standard(val, loc, scale) < a \/ val_standard(val, loc, scale) > b

\* C4: log_prob returns -inf exactly for the elements whose standardized
\* value is strictly below a or strictly above b; an element with a
\* standardized value equal to a or to b is inside and gets the value
\* log density - interval log mass - log(scale), which is not -inf.
C4_NegInfIffOutside ==
    lp_pc = "done" =>
        /\ (lp_res = "ninf") <=> Outside
        /\ ~Outside => lp_res = FSub(FSub("neg", get_logdelta(a, b)), LogOf(scale))

C4_Witness ==
    /\ lp_pc = "done"
    /\ val_standard(val, loc, scale) = a /\ a < b
    /\ scale = 2 /\ loc = 2
    /\ lp_res = "fin"

-----------------------------------------------------------------------------
(* Tensors: a shape and the elements, indexed by tuples.  Broadcasting and  *)
(* squeeze follow torch.                                                    *)
MaxDim == 2        \* B and n range over 1..MaxDim
MaxCells == 3      \* with B * n <= MaxCells

DimMax(sh) == IF sh = <<>> THEN 1 ELSE
    CHOOSE d \in {sh[p] : p \in 1 .. Len(sh)} : \A p \in 1 .. Len(sh) : sh[p] <= d
Idx(sh) == {f \in [1 .. Len(sh) -> 1 .. DimMax(sh)] : \A p \in 1 .. Len(sh) : f[p] <= sh[p]}
Scalar(v) == [shape |-> <<>>, at |-> [idx \in {<<>>} |-> v]]

\* t.squeeze(): every dimension of size 1 is removed
Rank(sh, p) == Cardinality({q \in 1 .. p : sh[q] # 1})
squeeze(t) ==
    LET sh  == t.shape
        new == SelectSeq(sh, LAMBDA d : d # 1)
    IN  [shape |-> new,
         at |-> [idx \in Idx(new) |->
                   t.at[[p \in 1 .. Len(sh) |-> IF sh[p] = 1 THEN 1 ELSE idx[Rank(sh, p)]]]]]

\* broadcasting: shapes are aligned on the right, a dimension of size 1 stretches
Dim(sh, k, p) == IF p <= k - Len(sh) THEN 1 ELSE sh[p - (k - Len(sh))]
BShape(s1, s2) ==
    LET k == Max(Len(s1), Len(s2))
    IN  [p \in 1 .. k |-> Max(Dim(s1, k, p), Dim(s2, k, p))]
BAt(t, idx) ==
    LET k == Len(idx)
        r == Len(t.shape)
    IN  t.at[[p \in 1 .. r |-> IF t.shape[p] = 1 THEN 1 ELSE idx[k - r + p]]]
\* t1 - t2 and t1 / t2, elementwise with broadcasting; the division is exact
\* on the values of the model
TSub(t1, t2) ==
    [shape |-> BShape(t1.shape, t2.shape),
     at |-> [idx \in Idx(BShape(t1.shape, t2.shape)) |-> BAt(t1, idx) - BAt(t2, idx)]]
TDiv(t1, t2) ==
    [shape |-> BShape(t1.shape, t2.shape),
     at |-> [idx \in Idx(BShape(t1.shape, t2.shape)) |-> BAt(t1, idx) \div BAt(t2, idx)]]

\* torch.sum(t, dim=-1), the sum of log densities kept as the bag of its terms
RECURSIVE BagOfTerms(_, _, _)
BagOfTerms(t, idx, j) ==
    IF j = 0 THEN EmptyBag
    ELSE BagOfTerms(t, idx, j - 1) (+) SetToBag({t.at[Append(idx, j)]})
sum_last(t) ==
    LET sh  == t.shape
        new == SubSeq(sh, 1, Len(sh) - 1)
    IN  [shape |-> new, at |-> [idx \in Idx(new) |-> BagOfTerms(t, idx, sh[Len(sh)])]]

-----------------------------------------------------------------------------
(* TLR.forward.  k = 1 regressor; exp is taken in base 2, so that exp(sigma) *)
(* is an integer; y and X*beta are even, so that the divisions are exact.    *)
l_thred == 0       \* torch_TLR passes l_thred=0
r_thred == 100     \* the default of TLR.__init__ for r_thred=None
Exp(s) == 2 ^ s

YVals == {0, 2}
XVals == {1, 2}
BetaVals == {2, 4}
SigmaVals == {0, 1}

\* the log density of one observation: a function of the standardized value,
\* the bounds and the scale; c is its float class
Term(z, pa, pb, s) ==
    [z |-> z, a |-> pa, b |-> pb, s |-> s,
     c |-> IF z < pa \/ z > pb THEN "ninf"
           ELSE FSub(FSub(LogPdf(z), get_logdelta(pa, pb)), LogOf(s))]

\* TruncatedNormal.log_prob on tensors (lines 36-40)
log_prob_t(tval, ta, tb, tloc, tscale) ==
    LET vs  == TDiv(TSub(tval, tloc), tscale)
        sh  == BShape(BShape(vs.shape, ta.shape), tscale.shape)
    IN  [shape |-> sh,
         at |-> [idx \in Idx(sh) |->
                   Term(BAt(vs, idx), BAt(ta, idx), BAt(tb, idx), BAt(tscale, idx))]]

bmm(bt) ==
    [shape |-> <<bt.B, bt.n, 1>>,
     at |-> [idx \in Idx(<<bt.B, bt.n, 1>>) |-> bt.X[idx[1]][idx[2]] * bt.beta[idx[1]]]]

\* lines 68-73
forward(bt) ==
    LET Xb        == squeeze(bmm(bt))
        exp_sigma == [shape |-> <<bt.B, bt.n>>,
                      at |-> [idx \in Idx(<<bt.B, bt.n>>) |-> Exp(bt.sigma[idx[1]])]]
        ty        == [shape |-> <<bt.B, bt.n>>,
                      at |-> [idx \in Idx(<<bt.B, bt.n>>) |-> bt.y[idx[1]][idx[2]]]]
        tl        == TDiv(TSub(Scalar(l_thred), Xb), exp_sigma)
        tr        == TDiv(TSub(Scalar(r_thred), Xb), exp_sigma)
    IN  sum_last(log_prob_t(ty, tl, tr, Xb, exp_sigma))

Shapes == {sh \in (1 .. MaxDim) \X (1 .. MaxDim) : sh[1] * sh[2] <= MaxCells}
Batches(B, n) ==
    [B : {B}, n : {n},
     y : [1 .. B -> [1 .. n -> YVals]],
     X : [1 .. B -> [1 .. n -> XVals]],
     beta : [1 .. B -> BetaVals],
     sigma : [1 .. B -> SigmaVals]]

InitForward ==
    /\ \E sh \in Shapes : batch \in Batches(sh[1], sh[2])
    /\ fwd_out = <<>> /\ fwd_pc = "call"
    /\ IdleTN /\ IdleLP /\ IdleDrv

Forward ==
    /\ fwd_pc = "call"
    /\ fwd_out' = forward(batch)
    /\ fwd_pc' = "done"
    /\ UNCHANGED <<batch, tnVars, lpVars, drvVars>>

NextForward == Forward
SpecForward == InitForward /\ [][NextForward]_vars

\* the log-likelihood of element i from its own data only
OwnTerm(bt, i, m) ==
    LET xb == bt.X[i][m] * bt.beta[i]
        es == Exp(bt.sigma[i])
    IN  Term((bt.y[i][m] - xb) \div es, (l_thred - xb) \div es, (r_thred - xb) \div es, es)
RECURSIVE OwnLogLik(_, _, _)
OwnLogLik(bt, i, m) ==
    IF m = 0 THEN EmptyBag ELSE OwnLogLik(bt, i, m - 1) (+) SetToBag({OwnTerm(bt, i, m)})

\* bt with the data and parameters of element j replaced
WithElement(bt, j, ey, eX, eb, es) ==
    [bt EXCEPT !.y[j] = ey, !.X[j] = eX, !.beta[j] = eb, !.sigma[j] = es]

\* C10: forward returns one value per batch element, the value of element i
\* is the sum of the log densities of its own n observations, and a batch
\* that differs only in another element gives the same value for element i.
C10_ElementsIndependent ==
    fwd_pc = "done" =>
        /\ fwd_out.shape = <<batch.B>>
        /\ \A i \in 1 .. batch.B :
             /\ fwd_out.at[<<i>>] = OwnLogLik(batch, i, batch.n)
             /\ \A j \in (1 .. batch.B) \ {i} :
                  \A ey \in [1 .. batch.n -> YVals], eX \in [1 .. batch.n -> XVals],
                     eb \in BetaVals, es \in SigmaVals :
                       forward(WithElement(batch, j, ey, eX, eb, es)).at[<<i>>]
                           = fwd_out.at[<<i>>]

\* the same for the batches with n >= 2 or B = 1, which squeeze() leaves aligned
C10_HoldsUnlessSingleObservation ==
    (fwd_pc = "done" /\ (batch.n >= 2 \/ batch.B = 1)) =>
        /\ fwd_out.shape = <<batch.B>>
        /\ \A i \in 1 .. batch.B : fwd_out.at[<<i>>] = OwnLogLik(batch, i, batch.n)

-----------------------------------------------------------------------------
(* Floats of the estimation loop: a rational n/d (d > 0), +inf, -inf or NaN *)
Fin(n, d) == [k |-> "fin", n |-> n, d |-> d]
PInf == [k |-> "pinf", n |-> 0, d |-> 1]      \* float('inf')
NInf == [k |-> "ninf", n |-> 0, d |-> 1]
NaN  == [k |-> "nan", n |-> 0, d |-> 1]

FNeg(x) ==
    IF x.k = "fin" THEN Fin(-x.n, x.d)
    ELSE IF x.k = "pinf" THEN NInf ELSE IF x.k = "ninf" THEN PInf ELSE NaN
FAdd(x, y) ==
    IF x.k = "nan" \/ y.k = "nan" THEN NaN
    ELSE IF x.k = "fin" /\ y.k = "fin" THEN Fin(x.n * y.d + y.n * x.d, x.d * y.d)
    ELSE IF x.k = "fin" THEN y
    ELSE IF y.k = "fin" THEN x
    ELSE IF x.k = y.k THEN x ELSE NaN            \* inf + (-inf)
FDivInt(x, m) == IF x.k = "fin" THEN Fin(x.n, x.d * m) ELSE x      \* m > 0
FAbs(x) == IF x.k = "fin" THEN Fin(Abs(x.n), x.d) ELSE IF x.k = "nan" THEN NaN ELSE PInf
\* x < y ; False when either is NaN
FLt(x, y) ==
    /\ x.k # "nan" /\ y.k # "nan"
    /\ \/ x.k = "ninf" /\ y.k # "ninf"
       \/ x.k = "fin" /\ y.k = "pinf"
       \/ x.k = "fin" /\ y.k = "fin" /\ x.n * y.d < y.n * x.d
FEq(x, y) ==
    /\ x.k = y.k /\ x.k # "nan"
    /\ x.k = "fin" => x.n * y.d = y.n * x.d
FLe(x, y) == FLt(x, y) \/ FEq(x, y)

RECURSIVE FSum(_)
FSum(t) == IF t = <<>> THEN Fin(0, 1) ELSE FAdd(FSum(SubSeq(t, 1, Len(t) - 1)), t[Len(t)])

-----------------------------------------------------------------------------
(* torch_TLR.  The optimizer, the scheduler and the gradients are black     *)
(* boxes: each iteration solver() returns any tensor of B log-likelihoods   *)
(* and optimizer.step() writes a new value into solver.beta, in place; the  *)
(* value is identified by the number of the step that wrote it (0: the      *)
(* initial estimate).                                                       *)
MaxIter == 3       \* max_iter ranges over 0..MaxIter

LLVals == {Fin(-1, 1), Fin(0, 1), NInf, NaN}
TolVals == {0, 1}
Devices == {"cpu", "cuda:0"}

\* variant dividing by y.numel() instead of y.shape[0]
Loss_per_observation(ll, yshape) == FDivInt(FNeg(FSum(ll)), yshape[1] * yshape[2])
\* line 84: -1 * solver().sum() / y.shape[0]
Loss(ll, yshape) == FDivInt(FNeg(FSum(ll)), yshape[1])

\* variant with the comparison reversed
Improves_reversed(l, best) == FLt(best, l)
\* line 88
Improves(l, best) == FLt(l, best)

\* variant without abs
Converged_noabs(l, prev, t) == FLe(FAdd(l, FNeg(prev)), Fin(t, 1))
\* line 90: abs(loss.item() - prev_loss) <= tol
Converged(l, prev, t) == FLe(FAbs(FAdd(l, FNeg(prev))), Fin(t, 1))

\* line 89: solver.beta.data.detach().cpu().numpy().  On the cpu neither
\* detach() nor cpu() copies, and numpy() shares the tensor's memory: the
\* array is a view of solver.beta's storage.  From another device cpu() copies.
to_numpy(dev, stored) ==
    IF dev = "cpu" THEN [kind |-> "view"] ELSE [kind |-> "copy", data |-> stored]

\* the contents of the array best_beta
Deref(arr) == IF arr.kind = "view" THEN beta ELSE arr.data

Init ==
    /\ device \in Devices
    /\ max_iter \in 0 .. MaxIter
    /\ tol \in TolVals
    /\ verbose \in {-1, 1}
    /\ \E sh \in Shapes : yB = sh[1] /\ yN = sh[2]
    /\ iteration = -1
    /\ beta = 0                                 \* init_beta, line 64
    /\ best_beta = [kind |-> "None"] /\ best_loss = PInf /\ prev_loss = PInf   \* line 81
    /\ logliks = <<>> /\ loss = NaN
    /\ pc = "loop"
    /\ losses = <<>> /\ snap = -1 /\ snapIter = -1 /\ steps = 0 /\ outcome = "none"
    /\ IdleTN /\ IdleLP /\ IdleFwd

\* lines 82-93: one iteration of the loop
Iterate ==
    /\ pc = "loop" /\ iteration + 1 < max_iter
    /\ \E ll \in [1 .. yB -> LLVals] :
         LET l == Loss(ll, <<yB, yN>>)
             nb == steps + 1
             better == Improves(l, best_loss)
         IN  /\ iteration' = iteration + 1
             /\ logliks' = ll
             /\ loss' = l
             /\ beta' = nb                                   \* optimizer.step()
             /\ steps' = steps + 1
             /\ losses' = Append(losses, l)
             /\ best_beta' = IF better THEN to_numpy(device, nb) ELSE best_beta
             /\ best_loss' = IF better THEN l ELSE best_loss
             /\ snap' = IF better THEN nb ELSE snap
             /\ snapIter' = IF better THEN iteration + 1 ELSE snapIter
             /\ IF Converged(l, prev_loss, tol)
                  THEN pc' = "after" /\ outcome' = "CONVERGED" /\ UNCHANGED prev_loss
                  ELSE pc' = "loop" /\ outcome' = outcome /\ prev_loss' = l
    /\ UNCHANGED <<device, max_iter, tol, verbose, yB, yN, tnVars, lpVars, fwdVars>>

\* line 82: range(max_iter) is exhausted
Exhaust ==
    /\ pc = "loop" /\ iteration + 1 >= max_iter
    /\ pc' = "after" /\ outcome' = "EXHAUSTED"
    /\ UNCHANGED <<device, max_iter, tol, verbose, yB, yN, iteration, beta, best_beta,
                   best_loss, prev_loss, logliks, loss, losses, snap, snapIter, steps,
                   tnVars, lpVars, fwdVars>>

\* lines 94-96: the print reads the loop variable, unbound if the loop never ran
Return ==
    /\ pc = "after"
    /\ pc' = IF verbose > 0 /\ iteration = -1 THEN "error" ELSE "returned"
    /\ UNCHANGED <<device, max_iter, tol, verbose, yB, yN, iteration, beta, best_beta,
                   best_loss, prev_loss, logliks, loss, losses, snap, snapIter, steps,
                   outcome, tnVars, lpVars, fwdVars>>

Next == Iterate \/ Exhaust \/ Return
Spec == Init /\ [][Next]_vars

-----------------------------------------------------------------------------
(* Properties of the estimation loop, stated over the history of the run *)
Terminated == pc \in {"returned", "error"}
LoopLeft == pc \in {"after", "returned", "error"}

\* losses[t] is the lowest loss observed (NaN is not a loss value)
LowestAt(t) ==
    /\ losses[t].k # "nan"
    /\ \A u \in 1 .. Len(losses) : ~FLt(losses[u], losses[t])

\* C1: the returned best_beta is the snapshot of beta taken in the iteration
\* with the lowest loss of the run, unchanged by the optimizer steps of the
\* later iterations.
C1_ReturnsBestSnapshot ==
    (pc = "returned" /\ best_beta.kind # "None") =>
        /\ Deref(best_beta) = snap
        /\ \E t \in 1 .. Len(losses) : LowestAt(t) /\ snapIter = t - 1

\* the same when the array is a copy (any device but the cpu)
C1_HoldsWithCopy ==
    (pc = "returned" /\ best_beta.kind # "None" /\ device # "cpu") =>
        /\ Deref(best_beta) = snap
        /\ \E t \in 1 .. Len(losses) : LowestAt(t) /\ snapIter = t - 1

\* C2: every call that returns, returns an array: best_beta was assigned
\* before the return, and no error state is entered.
C2_AlwaysReturnsArray ==
    /\ pc # "error"
    /\ pc = "returned" => best_beta.kind # "None"

\* the lowest of the losses observed so far, +inf if none is below +inf
MinSoFar(m) ==
    /\ \A t \in 1 .. Len(losses) : ~FLt(losses[t], m)
    /\ \/ m = PInf
       \/ \E t \in 1 .. Len(losses) : FEq(losses[t], m)

\* C5: best_loss never increases, changes only in an iteration whose loss is
\* strictly below the previous best_loss, and is always the minimum of the
\* losses observed so far (+inf if none was below +inf).
C5_BestLossStep ==
    /\ FLe(best_loss', best_loss)
    /\ best_loss' # best_loss => (FLt(loss', best_loss) /\ best_loss' = loss')
C5_BestLossIsRunningMin == [](pc # "idle" => MinSoFar(best_loss)) /\ [][C5_BestLossStep]_vars

C5_Witness ==
    /\ Len(losses) >= 3
    /\ losses[1].k = "fin" /\ FLt(losses[1], losses[2]) /\ losses[3].k = "nan"
    /\ FEq(best_loss, losses[1])

\* the tolerance test of iteration t (1-based), previous_loss being the loss
\* of iteration t-1, or +inf for the first
PrevOf(t) == IF t = 1 THEN PInf ELSE losses[t - 1]
Within(t) ==
    /\ losses[t].k = "fin" /\ PrevOf(t).k = "fin"
    /\ Abs(losses[t].n * PrevOf(t).d - PrevOf(t).n * losses[t].d)
           <= tol * losses[t].d * PrevOf(t).d

C8_LoopShape ==
    pc # "idle" =>
        /\ steps <= max_iter /\ steps = iteration + 1 /\ Len(losses) = steps
        /\ \A t \in 1 .. steps - 1 : ~Within(t)
        /\ pc = "loop" =>
             /\ outcome = "none"
             /\ steps >= 1 => (~Within(steps) /\ prev_loss = losses[steps])
             /\ steps = 0 => prev_loss = PInf
        /\ LoopLeft =>
             /\ outcome \in {"CONVERGED", "EXHAUSTED"}
             /\ outcome = "CONVERGED" <=> (steps >= 1 /\ Within(steps))
             /\ outcome = "EXHAUSTED" <=>
                    (steps = max_iter /\ \A t \in 1 .. steps : ~Within(t))

\* C8: the loop always terminates, after at most max_iter iterations, either
\* CONVERGED at the first iteration within the tolerance (no step is taken
\* after it) or EXHAUSTED after max_iter iterations none of which was within
\* the tolerance; an iteration that does not converge records its loss as
\* previous_loss.
\* Termination is stated by a variant: unless the call has ended a step is
\* enabled, and every step decreases LoopVariant, which is never negative.
LoopVariant ==
    3 * (max_iter - steps) + (IF pc = "loop" THEN 2 ELSE IF pc = "after" THEN 1 ELSE 0)
C8_TerminatesConvergedOrExhausted ==
    /\ [](C8_LoopShape /\ LoopVariant >= 0 /\ (pc = "idle" \/ Terminated \/ ENABLED Next))
    /\ [][LoopVariant' < LoopVariant /\ (outcome = "CONVERGED" => steps' = steps)]_vars

C8_Witness ==
    /\ pc = "returned" /\ outcome = "CONVERGED"
    /\ steps >= 2 /\ steps < max_iter

RECURSIVE SumN(_)
SumN(t) == IF t = <<>> THEN 0 ELSE SumN(SubSeq(t, 1, Len(t) - 1)) + t[Len(t)].n
AllFinite(t) == \A i \in 1 .. Len(t) : t[i].k = "fin"

====
